---- MODULE Spec2Model ----
(***************************************************************************)
(* Model of the MiQ users-management API: the rate limiting middleware,    *)
(* the role gate, the transaction boundary, the read-through cache         *)
(* wrapper and the user directory operations, as state machines.           *)
(***************************************************************************)
EXTENDS Integers, Sequences, FiniteSets, TLC

(***************************************************************************)
(* Rate limiter: app/depends/middlewares.py                                *)
(***************************************************************************)

\* configured ceiling (settings.RATE_LIMIT_REQUESTS, env-driven)
RATE_LIMIT_REQUESTS == 2

\* configured window in clock ticks (settings.RATE_LIMIT_DURATION, env-driven)
RATE_LIMIT_DURATION == 2

\* last clock value explored
MaxTime == 6

\* the client addresses (request.client.host) explored
Clients == {"10.0.0.1", "10.0.0.2"}

\* datetime.min: earlier than every clock value by more than any window
DATETIME_MIN == -1000000

VARIABLES
    request_counts,  \* RateLimitingMiddleware.request_counts: client -> <<count, last>>
    now,             \* the wall clock read by datetime.now()
    rl,              \* the last dispatch: its inputs and its outcome ("next": handed
                     \* to call_next, "429": answered by the middleware itself)
    last_admit,      \* per client, clock value recorded by its last admitted request
    rejected_since,  \* per client, whether a request was rejected since that admission
    run_admitted,    \* per client, admissions in the current run of gaps <= window
    win_admitted,    \* per client, admissions with no gap > window since the last admission
    last_arrival     \* per client, arrival time of its latest request

rlvars == <<request_counts, now, rl, last_admit, rejected_since,
            run_admitted, win_admitted, last_arrival>>

NoDispatch == [client |-> "", had |-> FALSE, count_before |-> 0, elapsed |-> 0,
               status |-> "none", gap_ok |-> FALSE, after_reject |-> FALSE]

\* self.request_counts.get(client_ip, (0, datetime.min))
GetRecord(rc, client_ip) ==
    IF client_ip \in DOMAIN rc THEN rc[client_ip] ELSE <<0, DATETIME_MIN>>

\* elapsed_time > settings.RATE_LIMIT_DURATION
WindowElapsed(elapsed_time) == elapsed_time > RATE_LIMIT_DURATION

\* request_count >= settings.RATE_LIMIT_REQUESTS
LimitReachedGT(request_count) == request_count > RATE_LIMIT_REQUESTS
LimitReached(request_count) == request_count >= RATE_LIMIT_REQUESTS

\* the count of a new window
KeepCount(request_count) == request_count + 1
ResetCount(request_count) == 1

\* request_count += 1, on the count read in the same call
IncrementLost(request_count) == request_count
Increment(request_count) == request_count + 1

\* what a rejected request leaves in request_counts: the early return skips the store
StampOnReject(rc, client_ip, request_count, t) ==
    [c \in DOMAIN rc \cup {client_ip} |->
        IF c = client_ip THEN <<request_count, t>> ELSE rc[c]]
AfterReject(rc, client_ip, request_count, t) == rc

\* self.request_counts[client_ip] = (request_count, datetime.now())
AdmitUnstamped(rc, client_ip, request_count, t) ==
    [c \in DOMAIN rc \cup {client_ip} |->
        IF c = client_ip THEN <<request_count, GetRecord(rc, client_ip)[2]>> ELSE rc[c]]
AfterAdmit(rc, client_ip, request_count, t) ==
    [c \in DOMAIN rc \cup {client_ip} |->
        IF c = client_ip THEN <<request_count, t>> ELSE rc[c]]

\* RateLimitingMiddleware.dispatch for one request of client_ip; d is the time
\* that passes between the two reads of the clock
Dispatch(client_ip, d) ==
    /\ now + d <= MaxTime
    /\ LET rec == GetRecord(request_counts, client_ip)
           request_count == rec[1]
           last_request == rec[2]
           elapsed_time == now - last_request
           had == client_ip \in DOMAIN request_counts
           reset == WindowElapsed(elapsed_time)
           reject == ~reset /\ LimitReached(request_count)
           new_count == IF reset THEN ResetCount(request_count)
                        ELSE Increment(request_count)
           newrun == last_arrival[client_ip] = DATETIME_MIN
                        \/ now - last_arrival[client_ip] > RATE_LIMIT_DURATION
           base == IF newrun THEN 0 ELSE run_admitted[client_ip]
           newwin == last_admit[client_ip] = DATETIME_MIN
                        \/ now - last_admit[client_ip] > RATE_LIMIT_DURATION
           wbase == IF newwin THEN 0 ELSE win_admitted[client_ip]
       IN /\ request_counts' =
                IF reject THEN AfterReject(request_counts, client_ip, request_count, now + d)
                ELSE AfterAdmit(request_counts, client_ip, new_count, now + d)
          /\ now' = now + d
          /\ rl' = [client |-> client_ip, had |-> had, count_before |-> request_count,
                    elapsed |-> IF had THEN elapsed_time ELSE -1,
                    status |-> IF reject THEN "429" ELSE "next",
                    gap_ok |-> had /\ last_admit[client_ip] # DATETIME_MIN
                               /\ now - last_admit[client_ip] > RATE_LIMIT_DURATION,
                    after_reject |-> rejected_since[client_ip]]
          /\ last_admit' = IF reject THEN last_admit
                           ELSE [last_admit EXCEPT ![client_ip] = now + d]
          /\ rejected_since' = [rejected_since EXCEPT ![client_ip] = reject]
          /\ run_admitted' = [run_admitted EXCEPT ![client_ip] =
                                 IF reject THEN base ELSE base + 1]
          /\ win_admitted' = [win_admitted EXCEPT ![client_ip] =
                                 IF reject THEN wbase ELSE wbase + 1]
          /\ last_arrival' = [last_arrival EXCEPT ![client_ip] = now]

\* time passes between requests
Tick ==
    /\ now < MaxTime
    /\ now' = now + 1
    /\ UNCHANGED <<request_counts, rl, last_admit, rejected_since,
                   run_admitted, win_admitted, last_arrival>>

RLNext ==
    \/ \E c \in Clients, d \in 0..1 : Dispatch(c, d)
    \/ Tick


RLIdle ==
    /\ request_counts = << >>
    /\ now = 0
    /\ rl = NoDispatch
    /\ last_admit = [c \in Clients |-> DATETIME_MIN]
    /\ rejected_since = [c \in Clients |-> FALSE]
    /\ run_admitted = [c \in Clients |-> 0]
    /\ win_admitted = [c \in Clients |-> 0]
    /\ last_arrival = [c \in Clients |-> DATETIME_MIN]

(***************************************************************************)
(* Data model: app/database/models/user.py, app/database/enums.py,         *)
(* app/datamodels/schemas                                                  *)
(***************************************************************************)

\* UserRole
Roles == {"ADMIN", "VIEWER"}

Emails == {"a@miq.io", "b@miq.io"}

\* values of an address column (city stands for address, poste_code, city,
\* county and country, which every operation treats alike)
Cities == {"Nottingham", "Derby"}

\* a field left out of a request body
Omitted == "<omitted>"

\* no principal / no row (None)
None == [none |-> TRUE]

\* the columns of the users table that the operations read or write
\* (User.dump() yields one key per column)
UserColumns == {"guid", "first_name", "last_name", "email", "hashed_psw", "role", "city"}

\* UserRequestBaseModel: defaults of the fields an update form may omit
BaseDefaults == [role |-> "ADMIN", city |-> "Nottingham"]

\* UserRequestBaseModel(**body).model_dump(): omitted fields take their defaults
ModelDump(form) ==
    [k \in DOMAIN form |-> IF form[k] = Omitted THEN BaseDefaults[k] ELSE form[k]]

\* UserResponseModel: its fields, and those declared without a default
ResponseFields == {"guid", "name", "last_name", "email", "role", "city"}
ResponseRequired == {"guid", "name", "last_name", "email"}

\* the failure of a projection (pydantic ValidationError)
ValidationFailure == [error |-> "ValidationError"]

\* UserResponseModel(**user.dump()).model_dump(): keys that are no field are
\* ignored, a required field with no key fails validation
UserResponseModelAllKeys(dump) == dump
UserResponseModel(dump) ==
    IF ResponseRequired \subseteq DOMAIN dump
    THEN [k \in ResponseFields \cap DOMAIN dump |-> dump[k]]
    ELSE ValidationFailure

(***************************************************************************)
(* Role gate: app/api/decorators.py role_checker, app/api/routers/user.py  *)
(***************************************************************************)

GatedRoutes == {"get_users", "update_user", "delete_user"}

\* @role_checker(role_levels=...) of each route
RoleLevels(route) ==
    IF route = "get_users" THEN {"ADMIN", "VIEWER"} ELSE {"ADMIN"}

\* role_checker.wrapper: "401" (HTTPException raised) or "call" (func awaited)
RoleCheckerInverted(session_user, role_levels) ==
    IF session_user # None /\ session_user.role \in role_levels
    THEN "401" ELSE "call"
RoleChecker(session_user, role_levels) ==
    IF session_user # None /\ session_user.role \notin role_levels
    THEN "401" ELSE "call"

VARIABLES
    gate_in,   \* a call of a gated route: its session_user and route
    gate_out   \* what the role gate did with it

gatevars == <<gate_in, gate_out>>

\* the principals a call may carry
Principals ==
    {None} \cup [guid : 1..2, email : Emails, role : Roles, city : Cities]

GateIdle ==
    /\ gate_in = [session_user |-> None, route |-> "none"]
    /\ gate_out = "none"

GateInit ==
    /\ gate_in \in [session_user : Principals, route : GatedRoutes]
    /\ gate_out = "none"

\* one call through the decorated route
GateCall ==
    /\ gate_out = "none"
    /\ gate_out' = RoleChecker(gate_in.session_user, RoleLevels(gate_in.route))
    /\ UNCHANGED gate_in


(***************************************************************************)
(* Cache gateway: app/api/utils.py, app/api/decorators.py cache_result     *)
(***************************************************************************)

\* A cache key is the sequence of the pieces of its string: "users" is
\* <<"users">>, "users_offset_0_limit_10" is <<"users", "_offset_", "0",
\* "_limit_", "10">>, "{guid}_auth_token" is <<guid, "_auth_token">>.

\* app.api.constants.GET_USERS_REDIS_K, the base key of the list cache
GET_USERS_REDIS_K == <<"users">>

\* @cache_result(key="users", ttl=3600) of the list route
LIST_CACHE_KEY == <<"users">>
LIST_CACHE_TTL == 3600

\* redis MATCH of the pattern f"{key}*": the key string starts with `key`
MatchesPattern(k, key) ==
    /\ Len(k) >= Len(key)
    /\ SubSeq(k, 1, Len(key)) = key

\* the redis keyspace without the keys in ks
DeleteKeys(redis, ks) == [k \in DOMAIN redis \ ks |-> redis[k]]

\* invalidate_cache(redis, key, as_pattern)
InvalidateExactOnly(redis, key, as_pattern) == DeleteKeys(redis, {key})
InvalidateCache(redis, key, as_pattern) ==
    IF as_pattern
    THEN DeleteKeys(redis, {k \in DOMAIN redis : MatchesPattern(k, key)})
    ELSE DeleteKeys(redis, {key})

\* redis.setex(name, time, value)
SetEx(redis, name, time, value) ==
    [k \in DOMAIN redis \cup {name} |->
        IF k = name THEN [value |-> value, ttl |-> time] ELSE redis[k]]

\* json.dumps / json.loads of a list response
JsonDumps(x) == [json |-> x]
JsonLoads(str) == str.json

(***************************************************************************)
(* Transaction boundary: app/api/decorators.py manage_transaction          *)
(***************************************************************************)

\* the exception classes a unit of work raises, each with its base classes
ExcBases ==
    [ValueError      |-> {"ValueError", "Exception"},
     TypeError       |-> {"TypeError", "Exception"},
     ValidationError |-> {"ValidationError", "ValueError", "Exception"},
     IntegrityError  |-> {"IntegrityError", "DBAPIError", "Exception"},
     UniqueViolation |-> {"UniqueViolation", "Exception"},
     KeyError        |-> {"KeyError", "LookupError", "Exception"},
     HTTPException   |-> {"HTTPException", "Exception"},
     RedisError      |-> {"RedisError", "Exception"},
     JSONDecodeError |-> {"JSONDecodeError", "ValueError", "Exception"},
     OperationalError |-> {"OperationalError", "DBAPIError", "Exception"},
     AttributeError  |-> {"AttributeError", "Exception"}]

\* isinstance(e, classes)
IsInstance(e, classes) == ExcBases[e.cls] \cap classes # {}

HTTPException(status_code) == [cls |-> "HTTPException", status |-> status_code]
Exc(cls) == [cls |-> cls, status |-> 0]

\* the except clauses of manage_transaction.wrapper, in order: the status of
\* the HTTPException that leaves the wrapper
ManageTransactionSwapped(e) ==
    IF IsInstance(e, {"ValueError", "TypeError"}) THEN 409
    ELSE IF IsInstance(e, {"IntegrityError", "UniqueViolation"}) THEN 422
    ELSE IF IsInstance(e, {"KeyError"}) THEN 400
    ELSE IF IsInstance(e, {"HTTPException"}) THEN e.status
    ELSE 500
ManageTransactionStatus(e) ==
    IF IsInstance(e, {"ValueError", "TypeError"}) THEN 422
    ELSE IF IsInstance(e, {"IntegrityError", "UniqueViolation"}) THEN 409
    ELSE IF IsInstance(e, {"KeyError"}) THEN 400
    ELSE IF IsInstance(e, {"HTTPException"}) THEN e.status
    ELSE 500

\* the clause reached is the last one, which calls _session.rollback()
ManageTransactionRollsBack(e) ==
    ~IsInstance(e, {"ValueError", "TypeError", "IntegrityError", "UniqueViolation",
                    "KeyError", "HTTPException"})

VARIABLES
    boundary   \* one call through manage_transaction.wrapper

txvars == <<boundary>>

\* the failures of a unit of work explored
Exceptions ==
    {Exc(c) : c \in DOMAIN ExcBases \ {"HTTPException"}}
        \cup {HTTPException(sc) : sc \in {401, 404, 409}}

\* where the unit of work fails: in the wrapped function, in flush/commit
RaisePoints == {"func", "commit"}

\* a call: the step it is at, whether and where it raises which exception,
\* the status of the HTTPException that leaves it (0: it returned), whether
\* it committed, how often it rolled back and closed the session, whether
\* the wrapped function flushed a write (crud.add_user, crud.delete_user)
\* before it returned or raised, and whether that write is committed
NoCall == [pc |-> "idle", raises |-> "never", e |-> None, status |-> 0,
           committed |-> FALSE, rollbacks |-> 0, closes |-> 0,
           wrote |-> FALSE, visible |-> FALSE]

TxIdle == boundary = NoCall

\* rv = await func(*args, **kwargs)
TxAwait ==
    /\ boundary.pc = "func"
    /\ boundary' = [boundary EXCEPT
                      !.pc = IF boundary.raises = "func" THEN "exit" ELSE "commit"]

\* _session.expunge_all(); _session.flush(); _session.commit()
TxCommitRegardless ==
    /\ boundary.pc = "commit"
    /\ boundary' = [boundary EXCEPT !.pc = "exit", !.committed = TRUE,
                                    !.visible = boundary.wrote]
TxCommit ==
    /\ boundary.pc = "commit"
    /\ boundary' = IF boundary.raises = "commit"
                   THEN [boundary EXCEPT !.pc = "exit"]
                   ELSE [boundary EXCEPT !.pc = "exit", !.committed = TRUE,
                                         !.visible = boundary.wrote]

\* leaving `with _session:` (Session.__exit__ closes the session), by
\* return rv or by the exception
TxExit ==
    /\ boundary.pc = "exit"
    /\ boundary' = [boundary EXCEPT
                      !.closes = @ + 1,
                      !.pc = IF boundary.committed THEN "finally" ELSE "except"]

\* the except clause that matches
TxExcept ==
    /\ boundary.pc = "except"
    /\ boundary' = [boundary EXCEPT
                      !.status = ManageTransactionStatus(boundary.e),
                      !.rollbacks = IF ManageTransactionRollsBack(boundary.e)
                                    THEN @ + 1 ELSE @,
                      !.pc = "finally"]

\* finally: _session.close()
TxFinally ==
    /\ boundary.pc = "finally"
    /\ boundary' = [boundary EXCEPT !.closes = @ + 1, !.pc = "done"]

\* get_db after the response: finally: db.close()
GetDbFinally ==
    /\ boundary.pc = "done"
    /\ boundary' = [boundary EXCEPT !.closes = @ + 1, !.pc = "closed"]

TxNext == TxAwait \/ TxCommit \/ TxExit \/ TxExcept \/ TxFinally \/ GetDbFinally

(***************************************************************************)
(* The wrapping layers of a route: app/api/routers/user.py,                *)
(* app/api/decorators.py                                                   *)
(***************************************************************************)

\* the decorators around each handler, innermost first
Decorators ==
    [get_users        |-> <<"cache_result", "role_checker">>,
     create_new_user  |-> <<"manage_transaction">>,
     update_user      |-> <<"manage_transaction", "role_checker">>,
     delete_user      |-> <<"manage_transaction", "role_checker">>,
     get_access_token |-> <<"manage_transaction">>]

\* an exception with its message; HTTPException(status_code, detail)
Raised(cls, status_code, detail) ==
    [cls |-> cls, status |-> status_code, detail |-> detail]

\* str(e)
Str(e) == e.detail

\* what leaves manage_transaction.wrapper when the wrapped function raises e
ManageTransactionRaises(e) ==
    IF IsInstance(e, {"ValueError", "TypeError", "IntegrityError", "UniqueViolation",
                      "KeyError"})
    THEN Raised("HTTPException", ManageTransactionStatus(e), Str(e))
    ELSE IF IsInstance(e, {"HTTPException"}) THEN e
    ELSE Raised("HTTPException", 500, Str(e))

\* what leaves cache_result's wrapper when the wrapped function raises e
CacheResultAll500(e) == Raised("HTTPException", 500, Str(e))
CacheResultRaises(e) ==
    IF IsInstance(e, {"HTTPException"}) THEN e
    ELSE Raised("HTTPException", 500, Str(e))

\* what leaves role_checker's wrapper when the wrapped function raises e
RoleCheckerRaises(e) == e

VARIABLES
    layers   \* one exception raised inside a handler on its way to the client

layervars == <<layers>>

\* the exceptions raised inside a handler that are explored
HandlerRaises ==
    {Raised("HTTPException", sc, d) :
        sc \in {400, 401, 404, 409, 422},
        d \in {"Incorrect email or password", "User with guid '1' not found"}}
      \cup {Raised(c, 0, c) : c \in DOMAIN ExcBases \ {"HTTPException"}}

\* the route, the exception the handler raised, the exception as it is after
\* the layers passed so far, and the number of layers passed
NoLayers == [route |-> "none", raised |-> None, e |-> None, passed |-> 0]

LayersIdle == layers = NoLayers

\* the decorator the exception reaches next
NextLayer ==
    IF layers.route = "none" \/ layers.passed >= Len(Decorators[layers.route])
    THEN "none" ELSE Decorators[layers.route][layers.passed + 1]

ThroughCacheResult ==
    /\ NextLayer = "cache_result"
    /\ layers' = [layers EXCEPT !.e = CacheResultRaises(layers.e), !.passed = @ + 1]

ThroughManageTransaction ==
    /\ NextLayer = "manage_transaction"
    /\ layers' = [layers EXCEPT !.e = ManageTransactionRaises(layers.e), !.passed = @ + 1]

ThroughRoleChecker ==
    /\ NextLayer = "role_checker"
    /\ layers' = [layers EXCEPT !.e = RoleCheckerRaises(layers.e), !.passed = @ + 1]

(***************************************************************************)
(* Credentials and tokens: app/depends/auth.py,                            *)
(* app/datamodels/schemas/auth.py                                          *)
(***************************************************************************)

\* the values of settings.ACCESS_TOKEN_EXPIRE_SECONDS explored: 0..MaxTtl
MaxTtl == 2

\* the clock runs from 0 to MaxClock seconds
MaxClock == 3

\* timedelta(minutes=15) in seconds
DEFAULT_EXPIRE_SECONDS == 900

SECRET_KEY == "SECRET_KEY"

\* the null of a token's claim, None as the value of a string field
Null == "<null>"

\* str(user.guid), and pydantic's parse of a string into a UUID
GuidStrs == <<"g1", "g2", "g3", "g4">>
GuidStr(guid) == GuidStrs[guid]
IsUUID(str) == \E g \in DOMAIN GuidStrs : GuidStrs[g] = str
ParseUUID(str) == CHOOSE g \in DOMAIN GuidStrs : GuidStrs[g] = str

\* timedelta(seconds=n)
Timedelta(n) == [seconds |-> n]

\* a value returned
Returned(value) == [cls |-> "return", value |-> value]

\* jwt.encode(claims, key, algorithm): the claims signed with the key
JwtEncode(claims, key) == [claims |-> claims, key |-> key]

\* jwt.decode(token, key, algorithms) at time t: the claims, or a JWTError
\* for a signature made with another key, for an exp before t
\* (ExpiredSignatureError) and for a subject that is no string
\* (JWTClaimsError)
JWTError == [cls |-> "JWTError"]
JwtDecode(token, key, t) ==
    LET claims == token.claims
    IN IF token.key # key THEN JWTError
       ELSE IF "exp" \in DOMAIN claims /\ claims.exp < t THEN JWTError
       ELSE IF "sub" \in DOMAIN claims /\ claims.sub = Null THEN JWTError
       ELSE claims

\* DecodedCredentials(**decoded): email (alias sub) is required and is None
\* or an address EmailStr accepts, user_guid is a UUID, exp is required;
\* other keys are ignored
DecodedCredentialsByName(decoded) ==
    IF {"email", "user_guid", "exp"} \subseteq DOMAIN decoded /\ IsUUID(decoded.user_guid)
    THEN [email |-> decoded.email, user_guid |-> ParseUUID(decoded.user_guid),
          exp |-> decoded.exp]
    ELSE ValidationFailure
DecodedCredentials(decoded) ==
    IF ~({"sub", "user_guid", "exp"} \subseteq DOMAIN decoded)
    THEN ValidationFailure
    ELSE IF ~(decoded.sub = Null \/ decoded.sub \in Emails) \/ ~IsUUID(decoded.user_guid)
    THEN ValidationFailure
    ELSE [email |-> decoded.sub, user_guid |-> ParseUUID(decoded.user_guid),
          exp |-> decoded.exp]

\* verify_token(token) at time t: only a JWTError is caught
VerifyToken(token, t) ==
    LET decoded == JwtDecode(token, SECRET_KEY, t)
    IN IF decoded = JWTError
       THEN Raised("HTTPException", 401, "Invalid or expired token")
       ELSE IF DecodedCredentials(decoded) = ValidationFailure
       THEN Raised("ValidationError", 0, "DecodedCredentials")
       ELSE Returned(DecodedCredentials(decoded))

\* create_auth_token(data, expires_delta) at time t
CreateAuthTokenDefault(data, expires_delta, t) ==
    JwtEncode([exp |-> t + DEFAULT_EXPIRE_SECONDS] @@ data, SECRET_KEY)
CreateAuthToken(data, expires_delta, t) ==
    LET expire == IF expires_delta # None /\ expires_delta.seconds # 0
                  THEN t + expires_delta.seconds
                  ELSE t + DEFAULT_EXPIRE_SECONDS
    IN JwtEncode([exp |-> expire] @@ data, SECRET_KEY)

VARIABLES
    settings,   \* the settings read from the environment
    clock,      \* datetime.now(), in seconds
    auth,       \* the last call of login, verify_token or get_current_user
    held        \* the token the last successful login returned

authvars == <<settings, clock, auth, held>>

\* a call: the operation, its argument, what it returned or raised, the time
\* of the call, and for the claims the stored user the argument stands for
\* (src: the user a verified token was issued to by login; why: the reason
\* a login was refused)
NoAuth == [op |-> "none", arg |-> None, out |-> None, at |-> 0, src |-> None,
           why |-> ""]

AuthIdle ==
    /\ settings = [ACCESS_TOKEN_EXPIRE_SECONDS |-> 1]
    /\ clock = 0
    /\ auth = NoAuth
    /\ held = None

extvars == <<layervars, authvars>>

ExtIdle == LayersIdle /\ AuthIdle


(***************************************************************************)
(* Store and requests: app/database/crud.py, app/api/corefuncs.py,         *)
(* app/api/routers/user.py                                                 *)
(***************************************************************************)

\* the request handlers that run concurrently (one per worker)
Procs == {1, 2}

\* how many create requests are explored (each draws a fresh guid)
MaxCreates == 2

VARIABLES
    users,       \* the committed rows of the users table
    next_guid,   \* the next value of uuid4()
    cache,       \* the redis keyspace: key -> [value, ttl]
    req,         \* per handler, the request it is serving
    last_done    \* the update that returned success with no request started since

mainvars == <<users, next_guid, cache, req, last_done>>

Guids == 1..MaxCreates

\* the guids a request may name: those drawn so far and the next one
Targets == {g \in Guids : g <= next_guid}

NoTx == [op |-> "none"]

\* a handler's request: the route, the step it is at, its arguments, the row
\* it loaded, its open transaction and row lock, its response, and what the
\* claims need to know of its history (dup: the email was stored when the
\* INSERT ran;
\* landed: the row as committed equals the dumped form; swept: how many keys
\* its invalidation deleted; clean: no mutation was in flight since it
\* started; expect: the update it directly follows; rows: the guids of the
\* rows fetched for a list request that gave query parameters; hit: the
\* list request was answered from the cache)
IdleReq == [kind |-> "idle", pc |-> "idle", guid |-> 0,
            form |-> None, snap |-> None, tx |-> NoTx, lock |-> 0,
            status |-> 0, rv |-> None, exc |-> "", dup |-> FALSE,
            landed |-> FALSE, swept |-> 0,
            clean |-> FALSE, expect |-> None, rows |-> None, hit |-> FALSE]

Mutating == {"create_new_user", "update_user", "delete_user"}

InFlight(q) == req[q].pc \notin {"idle", "done"}

\* str.lower() on the names explored
LowerAsGiven(str) == str
Lower(str) ==
    CASE str = "Mock" -> "mock"
      [] str = "MOCK" -> "mock"
      [] str = "User" -> "user"
      [] OTHER -> str

\* pwd_context.hash(secret)
Hash(secret) == [bcrypt |-> secret]

\* the creation forms explored (UserRequestModel): a capitalised name with
\* one email, an upper-case first and a lower-case last name with the other
CreateForms ==
    {[first_name |-> n[1], last_name |-> n[2], email |-> n[3],
      hashed_psw |-> "TestTest123!", role |-> r, city |-> Omitted] :
        n \in {<<"Mock", "User", "a@miq.io">>, <<"MOCK", "user", "b@miq.io">>},
        r \in Roles}

\* the update forms explored (UserRequestBaseModel): one that sets every
\* field, one that sets the city alone, one that omits every field
UpdateForms ==
    {[role |-> "VIEWER", city |-> "Derby"], [role |-> Omitted, city |-> "Derby"],
     [role |-> Omitted, city |-> Omitted]}

\* create_new_user: User(**user_form.model_dump()), names lower-cased,
\* password hashed; guid is the column default uuid4
NewUser(user_form, guid) ==
    LET d == ModelDump(user_form)
    IN [guid |-> guid, first_name |-> Lower(d.first_name),
        last_name |-> Lower(d.last_name), email |-> d.email,
        hashed_psw |-> Hash(d.hashed_psw), role |-> d.role, city |-> d.city]

\* the committed row with a guid, or None (one_or_none)
RowByGuid(table, guid) ==
    IF \E u \in table : u.guid = guid
    THEN CHOOSE u \in table : u.guid = guid ELSE None

\* the row lock of guid is held by a transaction other than p's
LockedByOther(p, guid) == \E q \in Procs \ {p} : req[q].lock = guid

\* email: mapped_column(unique=True): an INSERT of email violates the index
NotUnique(table, email) == FALSE
UniqueViolated(table, email) == \E u \in table : u.email = email

\* an INSERT of email waits for an open transaction that inserted the same
\* email or deleted a row holding it
InsertWaits(p, email) ==
    \E q \in Procs \ {p} :
        \/ req[q].tx.op = "ins" /\ req[q].tx.row.email = email
        \/ req[q].tx.op = "del" /\ req[q].tx.email = email

\* session.commit(): the transaction's statement becomes visible
ApplyTx(table, tx) ==
    CASE tx.op = "ins" -> table \cup {tx.row}
      [] tx.op = "del" -> {u \in table : u.guid # tx.guid}
      [] tx.op = "upd" ->
            {IF u.guid = tx.guid
             THEN [k \in DOMAIN u |-> IF k \in DOMAIN tx.set THEN tx.set[k] ELSE u[k]]
             ELSE u : u \in table}
      [] OTHER -> table

\* the rows in insertion order (the order of the heap)
RECURSIVE Ordered(_)
Ordered(table) ==
    IF table = {} THEN << >>
    ELSE LET u == CHOOSE x \in table : \A y \in table : x.guid <= y.guid
         IN <<u>> \o Ordered(table \ {u})

\* crud.find_users: session.query(User).offset(offset).limit(limit).all()
FindUsers(table, offset, limit) ==
    LET all == Ordered(table)
    IN SubSeq(all, offset + 1, IF offset + limit < Len(all) THEN offset + limit ELSE Len(all))

\* the projections cache_result builds from the rows on a miss
Projections(rows) == [i \in 1..Len(rows) |-> UserResponseModel(rows[i])]

\* a request ends: with an HTTPException of a status, or with its result
Done(r, status, rv, exc) ==
    [r EXCEPT !.pc = "done", !.status = status, !.rv = rv, !.exc = exc,
              !.tx = NoTx, !.lock = 0, !.snap = None, !.form = None,
              !.swept = 0,
              !.guid = IF r.kind = "create_new_user" THEN r.guid ELSE 0]

\* a mutating request starts: list requests in flight no longer count as
\* started after the last mutation
Unclean(rq) == [q \in Procs |-> [rq[q] EXCEPT !.clean = FALSE, !.expect = None]]

\* any request starts: a list request in flight no longer directly follows
\* the update before it
Unexpect(rq) == [q \in Procs |-> [rq[q] EXCEPT !.expect = None]]

Rest == <<rlvars, gatevars, txvars, extvars>>

\* POST /users/create arrives (no role gate)
StartCreate(p, user_form) ==
    /\ ~InFlight(p)
    /\ next_guid <= MaxCreates
    /\ next_guid' = next_guid + 1
    /\ req' = [Unclean(req) EXCEPT ![p] =
                 [IdleReq EXCEPT !.kind = "create_new_user", !.pc = "insert",
                                 !.guid = next_guid, !.form = user_form]]
    /\ last_done' = None
    /\ UNCHANGED <<users, cache, Rest>>

\* crud.add_user: session.add + flush, the INSERT
InsertUser(p) ==
    /\ req[p].kind = "create_new_user" /\ req[p].pc = "insert"
    /\ LET user == NewUser(req[p].form, req[p].guid)
       IN /\ ~InsertWaits(p, user.email)
          /\ IF UniqueViolated(users, user.email)
             THEN req' = [req EXCEPT ![p] =
                     [Done(@, ManageTransactionStatus(Exc("IntegrityError")), None,
                           "IntegrityError") EXCEPT !.dup = TRUE]]
             ELSE req' = [req EXCEPT ![p].pc = "invalidate",
                                     ![p].tx = [op |-> "ins", row |-> user],
                                     ![p].dup = \E u \in users : u.email = user.email]
    /\ UNCHANGED <<users, next_guid, cache, last_done, Rest>>

\* the attributes of the rows a request's session holds when its handler
\* starts: get_current_user loaded the principal's row through the same
\* session (Depends(get_db) is resolved once per request)
IdentityMap(principal, guid, form) ==
    IF form # None /\ principal.guid = guid
    THEN [k \in DOMAIN form |-> principal[k]] ELSE None

\* get_current_user resolved the principal, then the role gate of a route
StartGatedLate(p, route, principal, guid, form) ==
    /\ ~InFlight(p)
    /\ principal \in users
    /\ LET base == IF route = "get_users" THEN Unexpect(req) ELSE Unclean(req)
           r == [IdleReq EXCEPT !.kind = route, !.guid = guid, !.form = form,
                                !.snap = IdentityMap(principal, guid, form)]
           quiet == \A q \in Procs \ {p} : ~InFlight(q)
       IN req' = [base EXCEPT ![p] =
                IF RoleChecker(principal, RoleLevels(route)) = "401"
                THEN Done(r, 401, None, "HTTPException")
                ELSE [r EXCEPT !.pc = IF route = "update_user" THEN "select"
                                      ELSE IF route = "delete_user" THEN "find"
                                      ELSE "cache_get",
                               !.clean = (route = "get_users"
                                          /\ \A q \in Procs \ {p} :
                                               req[q].kind \in Mutating => ~InFlight(q)),
                               !.expect = IF route = "get_users" /\ quiet
                                          THEN last_done ELSE None]]
    /\ last_done' = None
    /\ cache' = IF RoleChecker(principal, RoleLevels(route)) = "401"
                THEN InvalidateCache(cache, GET_USERS_REDIS_K, TRUE) ELSE cache
    /\ UNCHANGED <<users, next_guid, Rest>>
StartGated(p, route, principal, guid, form) ==
    /\ ~InFlight(p)
    /\ principal \in users
    /\ LET base == IF route = "get_users" THEN Unexpect(req) ELSE Unclean(req)
           r == [IdleReq EXCEPT !.kind = route, !.guid = guid, !.form = form,
                                !.snap = IdentityMap(principal, guid, form)]
           quiet == \A q \in Procs \ {p} : ~InFlight(q)
       IN req' = [base EXCEPT ![p] =
                IF RoleChecker(principal, RoleLevels(route)) = "401"
                THEN Done(r, 401, None, "HTTPException")
                ELSE [r EXCEPT !.pc = IF route = "update_user" THEN "select"
                                      ELSE IF route = "delete_user" THEN "find"
                                      ELSE "cache_get",
                               !.clean = (route = "get_users"
                                          /\ \A q \in Procs \ {p} :
                                               req[q].kind \in Mutating => ~InFlight(q)),
                               !.expect = IF route = "get_users" /\ quiet
                                          THEN last_done ELSE None]]
    /\ last_done' = None
    /\ UNCHANGED <<users, next_guid, cache, Rest>>

\* update_user: session.query(User).filter(guid).with_for_update()
\* .one_or_none() waits for the row lock and takes it; a row the session
\* already holds keeps its loaded attributes (the query sets no
\* populate_existing). Then setattr of every dumped form field and
\* crud.update_user (add + flush): the UPDATE of the columns that differ
\* from the loaded attributes. The row is locked from the SELECT on, so the
\* two statements are one step.
SelectForUpdate(p) ==
    /\ req[p].kind = "update_user" /\ req[p].pc = "select"
    /\ ~LockedByOther(p, req[p].guid)
    /\ LET updatable_user == RowByGuid(users, req[p].guid)
           d == req[p].form
           loaded == IF req[p].snap # None THEN req[p].snap
                     ELSE [k \in DOMAIN d |-> updatable_user[k]]
           changed == {k \in DOMAIN d : d[k] # loaded[k]}
       IN req' = [req EXCEPT ![p] =
                IF updatable_user = None
                THEN Done(@, ManageTransactionStatus(HTTPException(404)), None,
                          "HTTPException")
                ELSE [@ EXCEPT !.pc = "invalidate", !.snap = None,
                               !.lock = req[p].guid,
                               !.tx = IF changed = {} THEN NoTx
                                      ELSE [op |-> "upd", guid |-> req[p].guid,
                                            set |-> [k \in changed |-> d[k]]]]]
    /\ UNCHANGED <<users, next_guid, cache, last_done, Rest>>

\* delete_user: crud.find_user by guid, 404 when there is none
FindDeletableUnchecked(p) ==
    /\ req[p].kind = "delete_user" /\ req[p].pc = "find"
    /\ req' = [req EXCEPT ![p].pc = "delete"]
    /\ UNCHANGED <<users, next_guid, cache, last_done, Rest>>
FindDeletable(p) ==
    /\ req[p].kind = "delete_user" /\ req[p].pc = "find"
    /\ LET deletable_user == RowByGuid(users, req[p].guid)
       IN req' = [req EXCEPT ![p] =
                IF deletable_user = None
                THEN Done(@, ManageTransactionStatus(HTTPException(404)), None,
                          "HTTPException")
                ELSE [@ EXCEPT !.pc = "delete"]]
    /\ UNCHANGED <<users, next_guid, cache, last_done, Rest>>

\* crud.delete_user: session.delete + flush, the DELETE
DeleteRow(p) ==
    /\ req[p].kind = "delete_user" /\ req[p].pc = "delete"
    /\ ~LockedByOther(p, req[p].guid)
    /\ LET row == RowByGuid(users, req[p].guid)
       IN req' = [req EXCEPT ![p] =
            IF row = None
            THEN [@ EXCEPT !.pc = "invalidate"]
            ELSE [@ EXCEPT !.pc = "invalidate", !.lock = req[p].guid,
                           !.tx = [op |-> "del", guid |-> req[p].guid,
                                   email |-> row.email]]]
    /\ UNCHANGED <<users, next_guid, cache, last_done, Rest>>

\* await invalidate_cache(redis=redis, key=GET_USERS_REDIS_K, as_pattern=True);
\* the scan and its deletes are one step: the calls are synchronous, and a
\* key another worker writes during the scan is either deleted by it or
\* written after it
Invalidate(p) ==
    /\ req[p].kind \in Mutating /\ req[p].pc = "invalidate"
    /\ cache' = InvalidateCache(cache, GET_USERS_REDIS_K, TRUE)
    /\ req' = [req EXCEPT ![p].pc = "commit",
                          ![p].swept = Cardinality(DOMAIN cache \ DOMAIN cache')]
    /\ UNCHANGED <<users, next_guid, last_done, Rest>>

\* the cache call of the unit of work fails (redis.exceptions.RedisError):
\* the with block closes the session and the open transaction is rolled back
RaiseCommitted(p) ==
    /\ req[p].kind \in Mutating /\ req[p].pc = "invalidate"
    /\ users' = ApplyTx(users, req[p].tx)
    /\ req' = [req EXCEPT ![p] =
                 Done(@, ManageTransactionStatus(Exc("RedisError")), None, "RedisError")]
    /\ UNCHANGED <<next_guid, cache, last_done, Rest>>
Raise(p) ==
    /\ req[p].kind \in Mutating /\ req[p].pc = "invalidate"
    /\ req' = [req EXCEPT ![p] =
                 Done(@, ManageTransactionStatus(Exc("RedisError")), None, "RedisError")]
    /\ UNCHANGED <<users, next_guid, cache, last_done, Rest>>

\* the status and the value of a unit of work that returned
SuccessStatus(kind) ==
    IF kind = "create_new_user" THEN 201 ELSE IF kind = "update_user" THEN 200 ELSE 202

\* manage_transaction: expunge_all, flush, commit, return rv
Commit(p) ==
    /\ req[p].kind \in Mutating /\ req[p].pc = "commit"
    /\ users' = ApplyTx(users, req[p].tx)
    /\ LET row == RowByGuid(users', req[p].guid)
           landed == /\ req[p].kind = "update_user"
                     /\ row # None
                     /\ \A k \in DOMAIN req[p].form : row[k] = req[p].form[k]
       IN req' = [req EXCEPT ![p] =
                    [Done(@, SuccessStatus(req[p].kind), None, "")
                        EXCEPT !.landed = landed]]
    /\ last_done' = IF req[p].kind = "update_user"
                    THEN [guid |-> req[p].guid, role |-> req[p].form.role]
                    ELSE None
    /\ UNCHANGED <<next_guid, cache, Rest>>

\* cache_result: the key of a call (the list route passes no request)
CacheKey(key, request) ==
    IF request # None
    THEN key \o <<"_offset_", request.offset, "_limit_", request.limit>>
    ELSE key

\* the keyspaces the invalidation is applied to: any of the list keys of
\* some (offset, limit) pairs, a mirrored token and a key of another prefix
CachedPairs ==
    {[offset |-> "0", limit |-> "100"], [offset |-> "0", limit |-> "10"],
     [offset |-> "10", limit |-> "10"]}

CachedKeys ==
    {CacheKey(LIST_CACHE_KEY, None)}
        \cup {CacheKey(LIST_CACHE_KEY, r) : r \in CachedPairs}
        \cup {<<"g1", "_auth_token">>, <<"admin_users">>}

Keyspaces ==
    {[k \in ks |-> [value |-> JsonDumps(<< >>), ttl |-> LIST_CACHE_TTL]] :
        ks \in SUBSET CachedKeys}

\* cache_result: redis.get(cache_key); a hit returns json.loads(cached)
CacheGetBypassed(p) ==
    /\ req[p].kind = "get_users" /\ req[p].pc = "cache_get"
    /\ req' = [req EXCEPT ![p].pc = "query"]
    /\ UNCHANGED <<users, next_guid, cache, last_done, Rest>>
CacheGet(p) ==
    /\ req[p].kind = "get_users" /\ req[p].pc = "cache_get"
    /\ LET cache_key == CacheKey(LIST_CACHE_KEY, None)
       IN req' = [req EXCEPT ![p] =
                IF cache_key \in DOMAIN cache
                THEN [Done(@, 200, JsonLoads(cache[cache_key].value), "")
                         EXCEPT !.hit = TRUE]
                ELSE [@ EXCEPT !.pc = "query"]]
    /\ UNCHANGED <<users, next_guid, cache, last_done, Rest>>

\* the route's call corefuncs.get_users(session=session): crud.find_users
\* with the default offset and limit (the request's query parameters are
\* the form of a list request; the route declares none and passes none on)
GetUsers(table, query) == FindUsers(table, 0, 100)

\* cache_result on a miss: await func (the route calls corefuncs.get_users
\* with the session alone), then the projection of every row; a failure
\* that is no HTTPException leaves as 500
QueryUsers(p) ==
    /\ req[p].kind = "get_users" /\ req[p].pc = "query"
    /\ LET func_result == GetUsers(users, req[p].form)
           models == Projections(func_result)
           rows == IF req[p].form = None THEN None
                   ELSE [i \in 1..Len(func_result) |-> func_result[i].guid]
       IN req' = [req EXCEPT ![p] =
                IF \E i \in 1..Len(models) : models[i] = ValidationFailure
                THEN [Done(@, 500, None, "ValidationError") EXCEPT !.rows = rows]
                ELSE [@ EXCEPT !.pc = "setex", !.rv = models, !.rows = rows]]
    /\ UNCHANGED <<users, next_guid, cache, last_done, Rest>>

\* cache_result on a miss: redis.setex(cache_key, ttl, json.dumps(...)), return models
StoreResult(p) ==
    /\ req[p].kind = "get_users" /\ req[p].pc = "setex"
    /\ cache' = SetEx(cache, CacheKey(LIST_CACHE_KEY, None), LIST_CACHE_TTL,
                      JsonDumps(req[p].rv))
    /\ req' = [req EXCEPT ![p] = Done(@, 200, req[p].rv, "")]
    /\ UNCHANGED <<users, next_guid, last_done, Rest>>

\* cache_result: redis.get, the awaited list operation (the query of
\* crud.find_users) or redis.setex raises; the wrapper's except clauses
\* decide what leaves it, and the call of setex that raised stored nothing
ListRaiseStored(p) ==
    /\ req[p].kind = "get_users" /\ req[p].pc \in {"cache_get", "query", "setex"}
    /\ LET cls == IF req[p].pc = "query" THEN "OperationalError" ELSE "RedisError"
           e == CacheResultRaises(Raised(cls, 0, cls))
       IN /\ req' = [req EXCEPT ![p] = Done(@, e.status, None, cls)]
          /\ cache' = SetEx(cache, CacheKey(LIST_CACHE_KEY, None), LIST_CACHE_TTL,
                            JsonDumps(req[p].rv))
    /\ UNCHANGED <<users, next_guid, last_done, Rest>>
ListRaise(p) ==
    /\ req[p].kind = "get_users" /\ req[p].pc \in {"cache_get", "query", "setex"}
    /\ LET cls == IF req[p].pc = "query" THEN "OperationalError" ELSE "RedisError"
           e == CacheResultRaises(Raised(cls, 0, cls))
       IN req' = [req EXCEPT ![p] = Done(@, e.status, None, cls)]
    /\ UNCHANGED <<users, next_guid, cache, last_done, Rest>>

\* the TTL of a cache entry runs out
Expire(k) ==
    /\ k \in DOMAIN cache
    /\ cache' = DeleteKeys(cache, {k})
    /\ UNCHANGED <<users, next_guid, req, last_done, Rest>>

MainIdle ==
    /\ users = {}
    /\ next_guid = 1
    /\ cache = DeleteKeys(<< >>, {})
    /\ req = [p \in Procs |-> IdleReq]
    /\ last_done = None

Init == RLIdle /\ GateIdle /\ TxIdle /\ ExtIdle /\ MainIdle

\* the steps of the create, update and delete requests of the handlers P
MutationStepOf(P) ==
    \/ \E p \in P, f \in CreateForms : StartCreate(p, f)
    \/ \E p \in P, u \in users, g \in Targets, f \in {ModelDump(b) : b \in UpdateForms} :
            StartGated(p, "update_user", u, g, f)
    \/ \E p \in P, u \in users, g \in Targets : StartGated(p, "delete_user", u, g, None)
    \/ \E p \in P : InsertUser(p)
    \/ \E p \in P : SelectForUpdate(p)
    \/ \E p \in P : FindDeletable(p)
    \/ \E p \in P : DeleteRow(p)
    \/ \E p \in P : Invalidate(p)
    \/ \E p \in P : Raise(p)
    \/ \E p \in P : Commit(p)

\* the steps of create, update and delete requests
MutationStep == MutationStepOf(Procs)

\* the steps of the cache and of the list requests of the handlers P with
\* the query parameters Q
ListStepOf(P, Q) ==
    \/ \E p \in P, u \in users, q \in Q : StartGated(p, "get_users", u, 0, q)
    \/ \E p \in P : CacheGet(p)
    \/ \E p \in P : QueryUsers(p)
    \/ \E p \in P : StoreResult(p)
    \/ \E p \in P : ListRaise(p)
    \/ \E k \in DOMAIN cache : Expire(k)

\* the steps of list requests with no query parameters and of the cache
ListStep == ListStepOf(Procs, {None})

Next == MutationStep \/ ListStep

vars == <<rlvars, gatevars, txvars, extvars, mainvars>>

\* the request pipeline: concurrent create, update, delete and list requests
Spec == Init /\ [][Next]_vars

\* the store under concurrent create, update and delete requests alone
SpecStore == Init /\ [][MutationStep]_vars

\* the role gate applied to every principal and gated route
GateNext == GateCall /\ UNCHANGED <<rlvars, txvars, extvars, mainvars>>

GateStart == RLIdle /\ GateInit /\ TxIdle /\ ExtIdle /\ MainIdle

SpecGate == GateStart /\ [][GateNext]_vars

\* the rate limiting middleware alone
RLInit == RLIdle /\ GateIdle /\ TxIdle /\ ExtIdle /\ MainIdle

RLStep == RLNext /\ UNCHANGED <<gatevars, txvars, extvars, mainvars>>

SpecRL == RLInit /\ [][RLStep]_vars

\* the transaction boundary around every failure of a unit of work
TxInit ==
    /\ RLIdle /\ GateIdle /\ ExtIdle /\ MainIdle
    /\ boundary \in
          {[NoCall EXCEPT !.pc = "func", !.wrote = w] : w \in BOOLEAN}
             \cup {[NoCall EXCEPT !.pc = "func", !.raises = at, !.e = e, !.wrote = w] :
                      at \in RaisePoints, e \in Exceptions, w \in BOOLEAN}

\* what the boundary leaves alone
TxFrame == UNCHANGED <<rlvars, gatevars, extvars, mainvars>>

TxStep ==
    \/ TxAwait /\ TxFrame
    \/ TxCommit /\ TxFrame
    \/ TxExit /\ TxFrame
    \/ TxExcept /\ TxFrame
    \/ TxFinally /\ TxFrame
    \/ GetDbFinally /\ TxFrame

SpecTx == TxInit /\ [][TxStep]_vars

\* create, update and delete requests, one at a time, over every keyspace,
\* starting with no user stored or with one
CacheInit ==
    /\ RLIdle /\ GateIdle /\ TxIdle /\ ExtIdle
    /\ \/ users = {} /\ next_guid = 1
       \/ users \in {{NewUser(f, 1)} : f \in CreateForms} /\ next_guid = 2
    /\ cache \in Keyspaces
    /\ req = [p \in Procs |-> IdleReq]
    /\ last_done = None

CacheStep == MutationStepOf({1})

SpecCache == CacheInit /\ [][CacheStep]_vars

\* the query parameters of the list requests explored: none, an offset, a
\* limit, both
ListQueries ==
    {None, [offset |-> 1], [limit |-> 1], [offset |-> 1, limit |-> 1]}

\* list requests with query parameters beside create, update and delete
\* requests
ListNext == ListStepOf({1}, ListQueries) \/ MutationStepOf({2})

SpecList == Init /\ [][ListNext]_vars

\* a request of client_ip reaches the application: the rate limiting
\* middleware runs first; it answers 429 itself, or stores the record and
\* awaits call_next(request), which hands the request to the router
ArriveForwarded(p, client_ip) ==
    /\ ~InFlight(p) /\ req[p].kind # "admitted"
    /\ Dispatch(client_ip, 0)
    /\ req' = [req EXCEPT ![p] = [IdleReq EXCEPT !.kind = "admitted"]]
    /\ UNCHANGED <<users, next_guid, cache, last_done, gatevars, txvars, extvars>>
Arrive(p, client_ip) ==
    /\ ~InFlight(p) /\ req[p].kind # "admitted"
    /\ Dispatch(client_ip, 0)
    /\ req' = [req EXCEPT ![p] =
                 IF rl'.status = "429"
                 THEN Done([IdleReq EXCEPT !.kind = "dispatch"], 429, None, "")
                 ELSE [IdleReq EXCEPT !.kind = "admitted"]]
    /\ UNCHANGED <<users, next_guid, cache, last_done, gatevars, txvars, extvars>>

\* the application behind the middleware: a route's function starts for a
\* request call_next was awaited for
EdgeNext ==
    \/ \E p \in Procs : Arrive(p, "10.0.0.1")
    \/ \E p \in Procs, f \in CreateForms :
            req[p].kind = "admitted" /\ StartCreate(p, f)
    \/ \E p \in Procs, u \in users, g \in Targets, f \in {ModelDump(b) : b \in UpdateForms} :
            req[p].kind = "admitted" /\ StartGated(p, "update_user", u, g, f)
    \/ \E p \in Procs, u \in users, g \in Targets :
            req[p].kind = "admitted" /\ StartGated(p, "delete_user", u, g, None)
    \/ \E p \in Procs, u \in users :
            req[p].kind = "admitted" /\ StartGated(p, "get_users", u, 0, None)
    \/ \E p \in Procs : InsertUser(p)
    \/ \E p \in Procs : SelectForUpdate(p)
    \/ \E p \in Procs : FindDeletable(p)
    \/ \E p \in Procs : DeleteRow(p)
    \/ \E p \in Procs : Invalidate(p)
    \/ \E p \in Procs : Raise(p)
    \/ \E p \in Procs : Commit(p)
    \/ \E p \in Procs : CacheGet(p)
    \/ \E p \in Procs : QueryUsers(p)
    \/ \E p \in Procs : StoreResult(p)
    \/ \E p \in Procs : ListRaise(p)
    \/ \E k \in DOMAIN cache : Expire(k)

\* one user is stored; nothing is cached, or the list as it was when no
\* user was stored
EdgeInit ==
    /\ RLIdle /\ GateIdle /\ TxIdle /\ ExtIdle
    /\ users \in {{NewUser(f, 1)} : f \in CreateForms} /\ next_guid = 2
    /\ cache \in {DeleteKeys(<< >>, {}),
                  SetEx(DeleteKeys(<< >>, {}), CacheKey(LIST_CACHE_KEY, None),
                        LIST_CACHE_TTL, JsonDumps(<< >>))}
    /\ req = [p \in Procs |-> IdleReq]
    /\ last_done = None

\* the application behind the rate limiting middleware: the requests of
\* one client within one window
SpecEdge == EdgeInit /\ [][EdgeNext]_vars

\* pwd_context.verify(secret, hash)
PwdVerify(secret, hash) == hash = Hash(secret)

\* crud.find_user(session, criteria=(Column("email") == email,))
FindUserAsIssued(table, email) ==
    IF held # None /\ held.user.email = email THEN held.user
    ELSE IF \E u \in table : u.email = email
    THEN CHOOSE u \in table : u.email = email ELSE None
FindUserByEmail(table, email) ==
    IF \E u \in table : u.email = email
    THEN CHOOSE u \in table : u.email = email ELSE None

\* authenticate_user: the stored user, or False
False == [false |-> TRUE]
AuthenticateUserByEmail(table, email, password) ==
    LET user == FindUserByEmail(table, email)
    IN IF user = None THEN False ELSE user
AuthenticateUser(table, email, password) ==
    LET user == FindUserByEmail(table, email)
    IN IF user = None THEN False
       ELSE IF ~PwdVerify(password, user.hashed_psw) THEN False
       ELSE user

\* the claims login puts into a token
LoginData(user) == [sub |-> user.email, user_guid |-> GuidStr(user.guid)]

\* the key of a user's mirrored token: f"{user.guid}_auth_token"
AuthTokenKey(user) == <<GuidStr(user.guid), "_auth_token">>

\* POST /users/token: login_for_access_token under manage_transaction;
\* redis refuses a SETEX whose time is not positive
LoginForAccessToken(email, password) ==
    LET user == AuthenticateUser(users, email, password)
        seconds == settings.ACCESS_TOKEN_EXPIRE_SECONDS
        access_token == CreateAuthToken(LoginData(user), Timedelta(seconds), clock)
        call == [NoAuth EXCEPT !.op = "login", !.at = clock,
                               !.arg = [username |-> email, password |-> password]]
    IN IF user = False
       THEN /\ auth' = [call EXCEPT
                          !.out = ManageTransactionRaises(
                                     Raised("HTTPException", 401,
                                            "Incorrect email or password")),
                          !.why = IF FindUserByEmail(users, email) = None
                                  THEN "unknown email" ELSE "wrong password"]
            /\ UNCHANGED <<cache, held>>
       ELSE IF seconds <= 0
       THEN /\ auth' = [call EXCEPT
                          !.out = ManageTransactionRaises(
                                     Raised("RedisError", 0, "invalid expire time")),
                          !.src = user]
            /\ UNCHANGED <<cache, held>>
       ELSE /\ cache' = SetEx(cache, AuthTokenKey(user), seconds, access_token)
            /\ auth' = [call EXCEPT
                          !.out = Returned([access_token |-> access_token,
                                            token_type |-> "bearer"]),
                          !.src = user]
            /\ held' = [token |-> access_token, user |-> user]

\* the users created before the calls start
StoredUsers ==
    {NewUser([first_name |-> "Mock", last_name |-> "User", email |-> "a@miq.io",
              hashed_psw |-> "TestTest123!", role |-> "ADMIN", city |-> Omitted], 1),
     NewUser([first_name |-> "Mock", last_name |-> "User", email |-> "b@miq.io",
              hashed_psw |-> "TestTest123!", role |-> "VIEWER", city |-> Omitted], 2)}

\* the tokens presented besides the one held: the tokens of a user stored
\* now or earlier that expire a second ago, now or in a second, one of them
\* signed with another key, and tokens signed with the key in which a claim
\* is missing, null or malformed
PresentedTokens ==
    {JwtEncode([exp |-> x] @@ LoginData(u), SECRET_KEY) :
         u \in StoredUsers, x \in {clock - 1, clock, clock + 1}}
        \cup {JwtEncode([exp |-> clock + 1] @@ LoginData(u), "another key") :
                 u \in StoredUsers}
        \cup {JwtEncode(c, SECRET_KEY) :
                 c \in {[sub |-> "a@miq.io", exp |-> clock + 1],
                        [user_guid |-> GuidStr(1), exp |-> clock + 1],
                        [sub |-> "a@miq.io", user_guid |-> GuidStr(1)],
                        [sub |-> Null, user_guid |-> GuidStr(1), exp |-> clock + 1],
                        [sub |-> "nobody", user_guid |-> GuidStr(1), exp |-> clock + 1],
                        [sub |-> "a@miq.io", user_guid |-> "1", exp |-> clock + 1]}}

\* the user the held token was issued to, when the token is the one held
IssuedTo(token) == IF held # None /\ held.token = token THEN held.user ELSE None

\* verify_token(token)
VerifyTokenCall(token) ==
    /\ auth' = [NoAuth EXCEPT !.op = "verify_token", !.arg = token, !.at = clock,
                              !.out = VerifyToken(token, clock),
                              !.src = IssuedTo(token)]
    /\ UNCHANGED <<settings, clock, held, cache>>

\* get_current_user(token, session): an HTTPException of verify_token is no
\* JWTError and leaves as it is
GetCurrentUserMirrored(table, token, t) ==
    LET credentials_exception ==
            Raised("HTTPException", 401, "Could not validate credentials")
        credentials == VerifyToken(token, t)
    IN IF credentials.cls # "return" THEN credentials
       ELSE IF credentials.value.email = Null THEN credentials_exception
       ELSE LET user == FindUserByEmail(table, credentials.value.email)
            IN IF user = None THEN credentials_exception
               ELSE IF AuthTokenKey(user) \notin DOMAIN cache
               THEN credentials_exception
               ELSE IF cache[AuthTokenKey(user)].value # token
               THEN credentials_exception
               ELSE Returned(user)
GetCurrentUser(table, token, t) ==
    LET credentials_exception ==
            Raised("HTTPException", 401, "Could not validate credentials")
        credentials == VerifyToken(token, t)
    IN IF credentials.cls # "return" THEN credentials
       ELSE IF credentials.value.email = Null THEN credentials_exception
       ELSE LET user == FindUserByEmail(table, credentials.value.email)
            IN IF user = None THEN credentials_exception ELSE Returned(user)

GetCurrentUserCall(token) ==
    /\ auth' = [NoAuth EXCEPT !.op = "get_current_user", !.arg = token, !.at = clock,
                              !.out = GetCurrentUser(users, token, clock),
                              !.src = IssuedTo(token)]
    /\ UNCHANGED <<settings, clock, held, cache>>

\* a second passes
ClockTick ==
    /\ clock < MaxClock
    /\ clock' = clock + 1
    /\ UNCHANGED <<settings, auth, held, cache>>

\* DELETE /users/{guid} of a stored user by an admin, committed
UserDeleted(u) ==
    /\ u \in users
    /\ users' = ApplyTx(users, [op |-> "del", guid |-> u.guid])
    /\ cache' = InvalidateCache(cache, GET_USERS_REDIS_K, TRUE)
    /\ UNCHANGED <<settings, clock, auth, held>>

\* what the calls to the credential service leave alone
AuthFrame ==
    UNCHANGED <<rlvars, gatevars, txvars, layervars, next_guid, req, last_done>>

AuthNext ==
    \/ \E e \in Emails, pw \in {"TestTest123!", "Wrong123!"} :
          LoginForAccessToken(e, pw) /\ UNCHANGED <<settings, clock, users>> /\ AuthFrame
    \/ (held # None /\ VerifyTokenCall(held.token) /\ UNCHANGED users /\ AuthFrame)
    \/ \E token \in PresentedTokens :
          VerifyTokenCall(token) /\ UNCHANGED users /\ AuthFrame
    \/ (held # None /\ GetCurrentUserCall(held.token) /\ UNCHANGED users /\ AuthFrame)
    \/ \E token \in PresentedTokens :
          GetCurrentUserCall(token) /\ UNCHANGED users /\ AuthFrame
    \/ ClockTick /\ UNCHANGED users /\ AuthFrame
    \/ \E u \in users : UserDeleted(u) /\ AuthFrame

AuthInit ==
    /\ RLIdle /\ GateIdle /\ TxIdle /\ LayersIdle
    /\ settings \in [ACCESS_TOKEN_EXPIRE_SECONDS : 0..MaxTtl]
    /\ clock = 0
    /\ auth = NoAuth
    /\ held = None
    /\ users = StoredUsers
    /\ next_guid = MaxCreates + 1
    /\ cache = DeleteKeys(<< >>, {})
    /\ req = [p \in Procs |-> IdleReq]
    /\ last_done = None

SpecAuth == AuthInit /\ [][AuthNext]_vars

\* PATCH /users/{guid} by an admin that sets the role of a stored user,
\* committed
RoleChanged(u, role) ==
    /\ u \in users /\ u.role # role
    /\ users' = ApplyTx(users, [op |-> "upd", guid |-> u.guid, set |-> [role |-> role]])
    /\ cache' = InvalidateCache(cache, GET_USERS_REDIS_K, TRUE)
    /\ UNCHANGED <<settings, clock, auth, held, gatevars, next_guid>>

\* POST /users/create with an email that is not stored, committed
UserCreated(user_form) ==
    /\ next_guid <= Len(GuidStrs)
    /\ ~UniqueViolated(users, user_form.email)
    /\ users' = ApplyTx(users, [op |-> "ins", row |-> NewUser(user_form, next_guid)])
    /\ next_guid' = next_guid + 1
    /\ cache' = InvalidateCache(cache, GET_USERS_REDIS_K, TRUE)
    /\ UNCHANGED <<settings, clock, auth, held, gatevars>>

\* a request to a gated route with the bearer token held: get_current_user
\* resolves the principal, then role_checker decides on it
GatedCallWithToken(route) ==
    /\ held # None
    /\ LET resolved == GetCurrentUser(users, held.token, clock)
       IN /\ gate_in' = [session_user |-> IF resolved.cls = "return"
                                          THEN resolved.value ELSE None,
                         route |-> route]
          /\ gate_out' = IF resolved.cls # "return" THEN "unauthenticated"
                         ELSE RoleChecker(resolved.value, RoleLevels(route))
    /\ UNCHANGED <<settings, clock, auth, held, users, cache, next_guid>>

\* what the calls with a token leave alone
PrincipalFrame == UNCHANGED <<rlvars, txvars, layervars, req, last_done>>

PrincipalNext ==
    \/ \E e \in Emails :
          /\ LoginForAccessToken(e, "TestTest123!")
          /\ UNCHANGED <<settings, clock, users, gatevars, next_guid>> /\ PrincipalFrame
    \/ \E u \in users, r \in Roles : RoleChanged(u, r) /\ PrincipalFrame
    \/ \E u \in users : UserDeleted(u) /\ UNCHANGED <<gatevars, next_guid>> /\ PrincipalFrame
    \/ \E f \in CreateForms : UserCreated(f) /\ PrincipalFrame
    \/ \E route \in GatedRoutes : GatedCallWithToken(route) /\ PrincipalFrame

\* two users are stored, an admin and a viewer; tokens do not expire
\* within the calls explored
PrincipalInit ==
    /\ RLIdle /\ GateIdle /\ TxIdle /\ LayersIdle
    /\ settings = [ACCESS_TOKEN_EXPIRE_SECONDS |-> 1]
    /\ clock = 0
    /\ auth = NoAuth
    /\ held = None
    /\ users = StoredUsers
    /\ next_guid = Cardinality(StoredUsers) + 1
    /\ cache = DeleteKeys(<< >>, {})
    /\ req = [p \in Procs |-> IdleReq]
    /\ last_done = None

SpecPrincipal == PrincipalInit /\ [][PrincipalNext]_vars

\* create_auth_token called with a payload and an expires_delta: None, or
\* a timedelta of 0 to MaxTtl seconds
TokenInit ==
    /\ RLIdle /\ GateIdle /\ TxIdle /\ LayersIdle /\ MainIdle
    /\ settings = [ACCESS_TOKEN_EXPIRE_SECONDS |-> 1]
    /\ clock = 0
    /\ held = None
    /\ auth \in {[NoAuth EXCEPT !.op = "create_auth_token",
                                 !.arg = [data |-> d, expires_delta |-> x]] :
                    d \in {LoginData(u) : u \in StoredUsers} \cup {[sub |-> Null]},
                    x \in {None} \cup {Timedelta(n) : n \in 0..MaxTtl}}

\* await create_auth_token(data, expires_delta)
CreateAuthTokenCall ==
    /\ auth.op = "create_auth_token"
    /\ auth' = [auth EXCEPT !.at = clock,
                            !.out = Returned(CreateAuthToken(auth.arg.data,
                                                             auth.arg.expires_delta, clock))]
    /\ UNCHANGED <<settings, clock, held, cache>>

TokenNext ==
    \/ CreateAuthTokenCall /\ UNCHANGED users /\ AuthFrame
    \/ ClockTick /\ UNCHANGED users /\ AuthFrame

SpecToken == TokenInit /\ [][TokenNext]_vars

\* every exception explored, raised inside the handler of every route
LayersInit ==
    /\ RLIdle /\ GateIdle /\ TxIdle /\ AuthIdle /\ MainIdle
    /\ layers \in {[NoLayers EXCEPT !.route = r, !.raised = e, !.e = e] :
                     r \in DOMAIN Decorators, e \in HandlerRaises}

\* what the layers leave alone
LayersFrame == UNCHANGED <<rlvars, gatevars, txvars, authvars, mainvars>>

LayersStep ==
    \/ ThroughCacheResult /\ LayersFrame
    \/ ThroughManageTransaction /\ LayersFrame
    \/ ThroughRoleChecker /\ LayersFrame

SpecLayers == LayersInit /\ [][LayersStep]_vars

(***************************************************************************)
(* Claims about the rate limiter                                           *)
(***************************************************************************)

\* the last dispatch found the ceiling reached inside the window
RL_AtCeilingInWindow ==
    /\ rl.status # "none"
    /\ rl.had
    /\ rl.count_before >= RATE_LIMIT_REQUESTS
    /\ rl.elapsed <= RATE_LIMIT_DURATION

C2_ResetAdmits ==
    (rl.status # "none" /\ (~rl.had \/ rl.elapsed > RATE_LIMIT_DURATION))
        => /\ rl.status = "next"
           /\ rl.client \in DOMAIN request_counts
           /\ request_counts[rl.client][1] = 1

\* a client at the ceiling was admitted after the window and restarted at 1
C2_Witness ==
    /\ rl.had
    /\ rl.count_before = RATE_LIMIT_REQUESTS
    /\ rl.elapsed > RATE_LIMIT_DURATION
    /\ rl.status = "next"
    /\ request_counts[rl.client][1] = 1

\* C3: the first request sent more than the window after the client's last
\* admitted request is admitted, also when rejected requests were sent
\* during the block.
C3_BlockEnds ==
    (rl.status # "none" /\ rl.gap_ok) => rl.status = "next"

\* a blocked client that kept sending was admitted once the window had passed
C3_Witness ==
    /\ rl.gap_ok
    /\ rl.after_reject
    /\ rl.count_before = RATE_LIMIT_REQUESTS
    /\ rl.status = "next"

C4_RoleGate ==
    gate_out # "none" =>
        /\ gate_out = "401" <=>
              (gate_in.session_user # None
                 /\ \/ gate_in.route = "get_users"
                          /\ gate_in.session_user.role \notin {"ADMIN", "VIEWER"}
                    \/ gate_in.route \in {"update_user", "delete_user"}
                          /\ gate_in.session_user.role # "ADMIN")
        /\ gate_out # "401" => gate_out = "call"
        /\ (gate_in.session_user # None /\ gate_in.session_user.role = "VIEWER"
              /\ gate_in.route \in {"update_user", "delete_user"}) => gate_out = "401"
        /\ (gate_in.session_user # None /\ gate_in.route = "get_users") => gate_out = "call"
        /\ gate_in.session_user = None => gate_out = "call"

\* a viewer was rejected on delete
C4_Witness ==
    /\ gate_out = "401"
    /\ gate_in.session_user # None
    /\ gate_in.session_user.role = "VIEWER"
    /\ gate_in.route = "delete_user"

(***************************************************************************)
(* Claims about the store, the list cache and the transaction boundary     *)
(***************************************************************************)

\* C5: after any sequence of create, update and delete requests, concurrent
\* creates with the same email included, no two stored users have the same
\* email: a create whose email is stored when its INSERT runs ends with 409
\* and adds no row.
C5_UniqueEmail ==
    /\ \A u \in users, v \in users : u.email = v.email => u = v
    /\ \A p \in Procs :
          (req[p].kind = "create_new_user" /\ req[p].pc \in {"invalidate", "commit", "done"}
             /\ req[p].dup)
            => /\ req[p].pc = "done"
               /\ req[p].status = 409
               /\ \A u \in users : u.guid # req[p].guid

\* two creates with the same email ended, one with 201 and its row stored,
\* the other with 409
C5_Witness ==
    \E p \in Procs : \E q \in Procs \ {p} :
        /\ req[p].kind = "create_new_user" /\ req[p].pc = "done" /\ req[p].status = 201
        /\ req[q].kind = "create_new_user" /\ req[q].pc = "done" /\ req[q].status = 409
        /\ req[q].dup
        /\ \E u \in users : u.guid = req[p].guid
        /\ Cardinality(users) = 1

\* the request ended because the cache or the database could not be
\* reached
Unreachable(r) == r.exc \in {"RedisError", "OperationalError"}

\* C6: when an update of a user's role has completed successfully and a
\* list request is made afterwards with no other request in between, the
\* list response shows the new role (the cache and the database being
\* reachable).
C6_UpdateThenList ==
    \A p \in Procs :
        (req[p].kind = "get_users" /\ req[p].pc = "done" /\ req[p].expect # None
           /\ ~Unreachable(req[p]))
          => /\ req[p].status = 200
             /\ \E i \in DOMAIN req[p].rv :
                   /\ req[p].rv[i].guid = req[p].expect.guid
                   /\ req[p].rv[i].role = req[p].expect.role

\* the list response has one entry per stored user, with its columns
ShowsStore(rv, table) ==
    /\ Len(rv) = Cardinality(table)
    /\ \A u \in table :
          \E i \in DOMAIN rv :
              /\ rv[i].guid = u.guid /\ rv[i].email = u.email
              /\ rv[i].role = u.role /\ rv[i].city = u.city

\* C7: under any interleaving of list requests with create, update and
\* delete requests, a list request that starts when no mutation is in flight
\* and answers 200 before another mutation starts returns the committed
\* state: no cache entry holding pre-mutation data survives a completed
\* mutation.
C7_NoStaleList ==
    \A p \in Procs :
        (req[p].kind = "get_users" /\ req[p].pc = "done" /\ req[p].clean
           /\ req[p].status = 200)
          => ShowsStore(req[p].rv, users)

\* a key of the list cache: the base key, or the base key with an offset
\* and a limit
IsListKey(k) ==
    \/ k = <<"users">>
    \/ Len(k) = 5 /\ k[1] = "users" /\ k[2] = "_offset_" /\ k[4] = "_limit_"

\* C8: every successful create, update and delete deletes all cache keys
\* that begin with the list base key: immediately after its invalidation
\* step no cached list response exists for any (offset, limit) pair, however
\* many pairs were cached before.
C8_AllListKeysDeleted ==
    \A p \in Procs :
        (req[p].kind \in Mutating
           /\ \/ req[p].pc = "commit"
              \/ req[p].pc = "done" /\ req[p].status \in {200, 201, 202})
          => \A k \in DOMAIN cache : ~IsListKey(k)

\* the invalidation of a delete removed the base key and three cached pairs
\* and left the keys of other prefixes
C8_Witness ==
    /\ req[1].kind = "delete_user"
    /\ req[1].pc = "commit"
    /\ req[1].swept = 4
    /\ DOMAIN cache = {<<"g1", "_auth_token">>, <<"admin_users">>}

\* C9: two concurrent updates of the same user id serialize on the row
\* lock: no two transactions hold the lock of one row, and the row as
\* committed by an update that returned success equals the fields it
\* submitted (last writer wins, no interleaved mix of fields).
C9_LastWriterWins ==
    /\ \A p \in Procs : \A q \in Procs \ {p} :
          req[p].lock # 0 => req[p].lock # req[q].lock
    /\ \A p \in Procs :
          (req[p].kind = "update_user" /\ req[p].pc = "done" /\ req[p].status = 200)
            => req[p].landed

\* C10: the transaction boundary maps a failure of the unit of work to a
\* status by its category: a value or type validation failure to 422, a
\* uniqueness or integrity violation to 409, a missing-key failure to 400,
\* and any other failure that carries no transport status to 500.
C10_StatusByCategory ==
    (boundary.pc \in {"finally", "done"} /\ boundary.raises # "never") =>
        LET c == boundary.e.cls
        IN /\ c \in {"ValueError", "TypeError", "ValidationError", "JSONDecodeError"}
                => boundary.status = 422
           /\ c \in {"IntegrityError", "UniqueViolation"} => boundary.status = 409
           /\ c = "KeyError" => boundary.status = 400
           /\ c \in {"RedisError", "OperationalError", "AttributeError"}
                => boundary.status = 500

\* a missing-key failure of the wrapped function left as 400
C10_Witness ==
    /\ boundary.pc = "done"
    /\ boundary.raises = "func"
    /\ boundary.e.cls = "KeyError"
    /\ boundary.status = 400


(***************************************************************************)
(* Claims about the transaction boundary and the wrapping layers           *)
(***************************************************************************)

\* C11: the transaction boundary commits if and only if the unit of work
\* (the wrapped function and the flush) returns normally: a call that leaves
\* with 422, 409, 400, a passed-through HTTP error or 500 has not committed
\* and no write of the unit is visible, and a call that returns has
\* committed and the unit's write is visible.
C11_CommitIffReturns ==
    /\ boundary.visible => boundary.committed
    /\ boundary.pc \in {"finally", "done", "closed"} =>
          /\ boundary.committed <=> boundary.raises = "never"
          /\ boundary.committed /\ boundary.wrote => boundary.visible
          /\ boundary.pc # "finally" => (boundary.committed <=> boundary.status = 0)

\* a failure of the wrapped function after it flushed a write left as 500
\* with no commit
C11_Witness ==
    /\ boundary.pc = "done"
    /\ boundary.raises = "func" /\ boundary.e = Exc("RedisError")
    /\ boundary.wrote
    /\ boundary.status = 500
    /\ ~boundary.committed /\ ~boundary.visible

\* C12: on every outcome path of a request that passes through the
\* transaction boundary the session is released exactly once: when the
\* request is over it has been closed, and not more than once.
C12_ReleasedOnce ==
    boundary.pc = "closed" => boundary.closes = 1

\* C13: an exception that carries a transport status (an HTTPException),
\* raised inside a handler, reaches the client with the same status and the
\* same detail after every wrapping layer of its route (role gate,
\* transaction boundary, cache wrapper).
C13_HttpErrorUnchanged ==
    (layers.route # "none" /\ IsInstance(layers.raised, {"HTTPException"}))
        => /\ layers.e.cls = "HTTPException"
           /\ layers.e.status = layers.raised.status
           /\ layers.e.detail = layers.raised.detail

\* the 404 of the update handler past the transaction boundary and the
\* role gate
C13_Witness ==
    /\ layers.route = "update_user" /\ layers.passed = 2
    /\ layers.raised = Raised("HTTPException", 404, "User with guid '1' not found")
    /\ layers.e = layers.raised

\* C14: a delete or an update that looks up an id that is not stored ends
\* with 404, and leaves every stored row and every cache entry as it was.
C14_NotFound ==
    [][\A p \in Procs :
          (/\ req[p].kind \in {"update_user", "delete_user"}
           /\ req[p].pc \in {"select", "find"}
           /\ RowByGuid(users, req[p].guid) = None
           /\ req'[p].pc # req[p].pc)
            => /\ req'[p].pc = "done"
               /\ req'[p].status = 404
               /\ users' = users
               /\ cache' = cache]_vars

\* a delete of an id that is not stored answered 404, with a user stored
\* and list keys cached
C14_Witness ==
    /\ req[1].kind = "delete_user" /\ req[1].pc = "done" /\ req[1].status = 404
    /\ users # {}
    /\ \E k \in DOMAIN cache : IsListKey(k)

(***************************************************************************)
(* Claims about credentials and tokens                                     *)
(***************************************************************************)

\* C15: a token issued by login to a user and verified no later than its
\* expiry yields the subject email and the user id it was issued with.
C15_TokenRoundTrip ==
    (/\ auth.op = "verify_token" /\ auth.src # None
     /\ auth.at <= auth.arg.claims.exp)
        => /\ auth.out.cls = "return"
           /\ auth.out.value.email = auth.src.email
           /\ auth.out.value.user_guid = auth.src.guid

\* the token of the second user verified in the second it expires
C15_Witness ==
    /\ auth.op = "verify_token" /\ auth.src # None
    /\ auth.src.guid = 2
    /\ auth.at = auth.arg.claims.exp
    /\ auth.out.cls = "return"

\* C16: verify_token ends with 401 on every decode or verification failure
\* (an expired token, a bad signature, a signed token whose payload does not
\* decode into the expected claims) and never with another error.
C16_VerifyFails401 ==
    (auth.op = "verify_token" /\ auth.out.cls # "return")
        => auth.out.cls = "HTTPException" /\ auth.out.status = 401

\* C17: get_current_user fails with 401 and the detail 'Could not validate
\* credentials' when the token is invalid, when it has no subject email and
\* when no stored user has its email; otherwise it returns the stored user
\* with that email.
C17_ResolvePrincipal ==
    auth.op = "get_current_user" =>
        LET claims == auth.arg.claims
            valid == VerifyToken(auth.arg, auth.at).cls = "return"
            subject == "sub" \in DOMAIN claims /\ claims.sub # Null
            known == subject /\ \E u \in users : u.email = claims.sub
        IN IF valid /\ known
           THEN /\ auth.out.cls = "return"
                /\ auth.out.value \in users
                /\ auth.out.value.email = claims.sub
           ELSE auth.out = Raised("HTTPException", 401, "Could not validate credentials")

\* C18: a login with an unknown email and a login with a stored email and a
\* wrong password end alike: 401 with the detail 'Incorrect email or
\* password', no token returned and no cache entry written.
C18_LoginRefusedAlike ==
    [][(/\ auth'.op = "login" /\ auth' # auth
        /\ \/ FindUserByEmail(users, auth'.arg.username) = None
           \/ ~PwdVerify(auth'.arg.password,
                         FindUserByEmail(users, auth'.arg.username).hashed_psw))
         => /\ auth'.out = Raised("HTTPException", 401, "Incorrect email or password")
            /\ cache' = cache
            /\ held' = held]_vars

\* a login with the email of a deleted user refused, with the token of an
\* earlier login mirrored
C18_Witness ==
    /\ auth.op = "login" /\ auth.why = "unknown email"
    /\ auth.out.status = 401
    /\ held # None /\ DOMAIN cache # {}

\* C19: a successful login returns a token of type 'bearer' whose claims are
\* the user's email and id, and stores the same token string under the key
\* '{user_id}_auth_token' with a TTL equal to the token's lifetime.
C19_LoginMirrorsToken ==
    (auth.op = "login" /\ auth.out.cls = "return") =>
        LET access_token == auth.out.value.access_token
            user == auth.src
            name == <<GuidStr(user.guid), "_auth_token">>
        IN /\ auth.out.value.token_type = "bearer"
           /\ access_token.claims.sub = user.email
           /\ access_token.claims.user_guid = GuidStr(user.guid)
           /\ name \in DOMAIN cache
           /\ cache[name].value = access_token
           /\ cache[name].ttl = access_token.claims.exp - auth.at

\* a login of the second user at a later second, its token mirrored
C19_Witness ==
    /\ auth.op = "login" /\ auth.out.cls = "return"
    /\ auth.src.guid = 2 /\ auth.at > 0
    /\ <<"g2", "_auth_token">> \in DOMAIN cache

(***************************************************************************)
(* Claims about the list request                                           *)
(***************************************************************************)

\* the rows at the offset and within the limit of a request's query
\* parameters, 0 and 100 when omitted
RowsOfQuery(table, query) ==
    FindUsers(table, IF "offset" \in DOMAIN query THEN query.offset ELSE 0,
                     IF "limit" \in DOMAIN query THEN query.limit ELSE 100)

\* C20: on a cache miss a list request with the query parameters offset o
\* and limit l (0 and 100 when omitted) fetches at most l users, starting
\* at position o of the stored users.
C20_OffsetLimitBound ==
    [][\A p \in Procs :
          (/\ req[p].kind = "get_users" /\ req[p].pc = "query"
           /\ req[p].form # None
           /\ req'[p].pc # "query" /\ ~Unreachable(req'[p]))
            => LET expected == RowsOfQuery(users, req[p].form)
               IN req'[p].rows = [i \in 1..Len(expected) |-> expected[i].guid]]_vars

\* a query parameter as the text the request carries
ParamText(n) == IF n = 0 THEN "0" ELSE IF n = 1 THEN "1" ELSE "100"

\* the key {base_key}_offset_{offset}_limit_{limit} of a request's query
\* parameters, 0 and 100 when omitted
KeyOfQuery(query) ==
    LIST_CACHE_KEY \o
      <<"_offset_", ParamText(IF "offset" \in DOMAIN query THEN query.offset ELSE 0),
        "_limit_", ParamText(IF "limit" \in DOMAIN query THEN query.limit ELSE 100)>>

\* C21: a list request with the query parameters offset o and limit l
\* caches its response under the key {base_key}_offset_{o}_limit_{l} and
\* under no other key, so that a response cached for one pair is not
\* returned for another pair.
C21_KeyPerPair ==
    [][\A p \in Procs :
          (/\ req[p].kind = "get_users" /\ req[p].pc = "setex"
           /\ req[p].form # None
           /\ req'[p].pc = "done" /\ ~Unreachable(req'[p]))
            => /\ KeyOfQuery(req[p].form) \in DOMAIN cache'
               /\ DOMAIN cache' \ DOMAIN cache \subseteq {KeyOfQuery(req[p].form)}]_vars

\* C22: on a cache hit (the key is stored and the lookup does not fail) the
\* wrapper returns the stored value, as the miss that stored it wrote it,
\* without running the list operation and without writing the cache entry
\* or the store.
C22_HitReturnsStored ==
    [][\A p \in Procs :
          (/\ req[p].kind = "get_users" /\ req[p].pc = "cache_get"
           /\ CacheKey(LIST_CACHE_KEY, None) \in DOMAIN cache
           /\ req'[p].pc # "cache_get" /\ ~Unreachable(req'[p]))
            => /\ req'[p].pc = "done" /\ req'[p].status = 200
               /\ JsonDumps(req'[p].rv) = cache[CacheKey(LIST_CACHE_KEY, None)].value
               /\ req'[p].rows = req[p].rows
               /\ cache' = cache
               /\ users' = users]_vars

\* a list request was answered from the entry a miss stored
C22_Witness ==
    /\ req[1].kind = "get_users" /\ req[1].pc = "done" /\ req[1].hit
    /\ req[1].status = 200
    /\ CacheKey(LIST_CACHE_KEY, None) \in DOMAIN cache

\* C23: a list request that misses the cache ends 200 with the projected
\* list, stored under the key with the configured time-to-live, so that
\* the next read of the key is a hit returning that list (the cache and
\* the database being reachable).
C23_MissStores ==
    [][\A p \in Procs :
          (/\ req[p].kind = "get_users" /\ req[p].pc \in {"query", "setex"}
           /\ req'[p].pc = "done" /\ ~Unreachable(req'[p]))
            => /\ req'[p].status = 200
               /\ CacheKey(LIST_CACHE_KEY, None) \in DOMAIN cache'
               /\ cache'[CacheKey(LIST_CACHE_KEY, None)] =
                     [value |-> JsonDumps(req'[p].rv), ttl |-> LIST_CACHE_TTL]]_vars

\* C24: for any stored users, none included, the list operation on a miss
\* succeeds with exactly one projection per stored user, holding the id,
\* the names, the email, the role and the address fields.
C24_OneProjectionPerUser ==
    [][\A p \in Procs :
          (/\ req[p].kind = "get_users" /\ req[p].pc = "query"
           /\ req'[p].pc # "query" /\ ~Unreachable(req'[p]))
            => /\ req'[p].pc = "setex"
               /\ Len(req'[p].rv) = Cardinality(users)
               /\ \A u \in users :
                     \E i \in DOMAIN req'[p].rv :
                         /\ req'[p].rv[i] # ValidationFailure
                         /\ req'[p].rv[i].guid = u.guid
                         /\ req'[p].rv[i].email = u.email
                         /\ req'[p].rv[i].role = u.role]_vars

(***************************************************************************)
(* Claims about the stored rows                                            *)
(***************************************************************************)

\* the lower-cased form of each name a creation form may carry
LowerCaseOf ==
    [n \in {"Mock", "MOCK", "User", "user"} |->
        IF n \in {"Mock", "MOCK"} THEN "mock" ELSE "user"]

\* C25: after any sequence of create, update and delete requests every
\* stored user's first and last name are the lower-cased names of its
\* creation form: a row enters the store with them and no step changes them.
C25_NamesLowerCased ==
    [][\A u \in users' :
          \/ \E v \in users :
                /\ v.guid = u.guid
                /\ v.first_name = u.first_name /\ v.last_name = u.last_name
          \/ \E p \in Procs :
                /\ req[p].kind = "create_new_user" /\ req[p].pc = "commit"
                /\ req[p].guid = u.guid
                /\ u.first_name = LowerCaseOf[req[p].form.first_name]
                /\ u.last_name = LowerCaseOf[req[p].form.last_name]]_vars

\* a user created with an upper-case first name, updated afterwards
C25_Witness ==
    \E u \in users :
        /\ u.email = "b@miq.io" /\ u.first_name = "mock" /\ u.last_name = "user"
        /\ u.city = "Derby"
        /\ \E p \in Procs :
              /\ req[p].kind = "update_user" /\ req[p].pc = "done" /\ req[p].landed

\* C26: an update that returns success sets every field of the update form
\* on the row to the value of the form (the submitted value, or the form's
\* default for an omitted field), and leaves every other column of the row
\* and every other row as they were.
C26_UpdateSetsFormFields ==
    [][\A p \in Procs :
          (/\ req[p].kind = "update_user" /\ req[p].pc = "commit"
           /\ req'[p].pc = "done" /\ req'[p].status = 200)
            => LET before == RowByGuid(users, req[p].guid)
                   after == RowByGuid(users', req[p].guid)
               IN /\ before # None /\ after # None
                  /\ \A k \in DOMAIN req[p].form : after[k] = req[p].form[k]
                  /\ \A k \in UserColumns \ DOMAIN req[p].form : after[k] = before[k]
                  /\ users' \ {after} = users \ {before}]_vars

(***************************************************************************)
(* Claims about the order of the gates                                     *)
(***************************************************************************)

\* C28: the rate limiter is evaluated before every other gate: a request
\* it rejects ends with 429 without a principal resolved, a role checked,
\* a transaction begun or the cache read, the store and the cache are as
\* they were, and a route's function only ever starts for a request the
\* rate limiter forwarded.
C28_RateLimiterFirst ==
    [][/\ (rl' # rl /\ rl'.status = "429")
          => /\ users' = users /\ cache' = cache /\ next_guid' = next_guid
             /\ \A p \in Procs :
                   req'[p] # req[p]
                     => /\ req'[p].kind = "dispatch" /\ req'[p].pc = "done"
                        /\ req'[p].status = 429
                        /\ req'[p].tx = NoTx /\ req'[p].lock = 0 /\ ~req'[p].hit
       /\ \A p \in Procs :
             (req'[p].kind # req[p].kind /\ req'[p].kind \notin {"admitted", "dispatch"})
               => req[p].kind = "admitted"]_vars

\* a request was rejected while a user was stored, the list was cached and
\* another request held an open transaction
C28_Witness ==
    \E p \in Procs :
        /\ req[p].kind = "dispatch" /\ req[p].status = 429
        /\ rl.status = "429"
        /\ users # {}
        /\ CacheKey(LIST_CACHE_KEY, None) \in DOMAIN cache
        /\ \E q \in Procs \ {p} : req[q].tx.op = "upd"

\* C29: the role gate runs before the transaction boundary and the cache
\* wrapper: a request it rejects ends 401 straight from the router, with no
\* transaction begun, no row locked or written, no cache entry read,
\* written or invalidated, and no list response, cached or fetched,
\* returned to it.
C29_RoleGateFirst ==
    [][\A p \in Procs :
          (req[p].kind = "admitted" /\ req'[p].pc = "done" /\ req'[p].status = 401)
            => /\ req'[p].kind \in GatedRoutes
               /\ users' = users /\ cache' = cache /\ next_guid' = next_guid
               /\ req'[p].tx = NoTx /\ req'[p].lock = 0 /\ req'[p].swept = 0
               /\ ~req'[p].hit /\ req'[p].rv = None /\ req'[p].rows = None]_vars

\* a viewer's delete was rejected while the list was cached
C29_Witness ==
    \E p \in Procs :
        /\ req[p].kind = "delete_user" /\ req[p].pc = "done" /\ req[p].status = 401
        /\ \E u \in users : u.role = "VIEWER"
        /\ CacheKey(LIST_CACHE_KEY, None) \in DOMAIN cache

(***************************************************************************)
(* Claims about the failures of the list request                           *)
(***************************************************************************)

\* C30: in the read-through wrapper a failure that carries no transport
\* status (of the cache lookup, of the list operation, of the projection,
\* of the cache store) ends the request with 500, and no entry is written
\* under the key.
C30_ListFailure500 ==
    [][\A p \in Procs :
          (/\ req[p].kind = "get_users" /\ InFlight(p)
           /\ req'[p].pc = "done"
           /\ req'[p].exc \notin {"", "HTTPException"})
            => /\ req'[p].status = 500
               /\ req'[p].rv = None
               /\ cache' = cache]_vars

\* the cache store of a miss failed and the key is not stored
C30_Witness ==
    \E p \in Procs :
        /\ req[p].kind = "get_users" /\ req[p].pc = "done"
        /\ req[p].status = 500 /\ req[p].exc = "RedisError"
        /\ req[p].rows # None
        /\ CacheKey(LIST_CACHE_KEY, None) \notin DOMAIN cache

(***************************************************************************)
(* Claims about tokens and principals                                      *)
(***************************************************************************)

\* C31: the token create_auth_token returns expires at the time of the
\* call plus the expires_delta it is given, for every expires_delta given,
\* zero included, and 15 minutes after the call only when none is given.
C31_ExpiryIsIssuePlusTtl ==
    (auth.op = "create_auth_token" /\ auth.out # None)
        => auth.out.value.claims.exp =
              auth.at + (IF auth.arg.expires_delta = None
                         THEN DEFAULT_EXPIRE_SECONDS
                         ELSE auth.arg.expires_delta.seconds)

(***************************************************************************)
(* Claims about the rate limiter under concurrent requests                 *)
(***************************************************************************)

\* C32: when several requests of one client are handled concurrently, the
\* read of the client's record, the ceiling check and the write of the
\* record of one request are not interleaved with another's: the recorded
\* count is the number of requests admitted in the window, none is lost,
\* and no more than N are admitted within a window.
C32_NoLostUpdate ==
    \A c \in DOMAIN request_counts :
        /\ request_counts[c][1] = win_admitted[c]
        /\ win_admitted[c] <= RATE_LIMIT_REQUESTS

\* two requests of the client are being handled at once, both counted
C32_Witness ==
    /\ \A p \in Procs : InFlight(p)
    /\ request_counts["10.0.0.1"][1] = 2
    /\ win_admitted["10.0.0.1"] = 2

\* C33: in every reachable state of the rate limiter (the ceiling N being
\* at least 1) the count of each recorded client is between 1 and N, and a
\* rejected request leaves the client's count as it found it.
C33_CountWithinCeiling ==
    /\ \A c \in DOMAIN request_counts :
          /\ 1 <= request_counts[c][1]
          /\ request_counts[c][1] <= RATE_LIMIT_REQUESTS
    /\ rl.status = "429" => request_counts[rl.client][1] = rl.count_before

\* a client at the ceiling was rejected twice in a row
C33_Witness ==
    /\ rl.status = "429" /\ rl.after_reject
    /\ request_counts[rl.client][1] = RATE_LIMIT_REQUESTS
    /\ \E c \in DOMAIN request_counts : request_counts[c][1] < RATE_LIMIT_REQUESTS

\* the token is signed with the application's key, is not past its expiry
\* at time t, carries an email as subject, a user id and an expiry, and a
\* user with the subject's email is stored
Acceptable(token, t, table) ==
    /\ token.key = SECRET_KEY
    /\ {"sub", "user_guid", "exp"} \subseteq DOMAIN token.claims
    /\ token.claims.sub \in Emails
    /\ IsUUID(token.claims.user_guid)
    /\ token.claims.exp >= t
    /\ \E u \in table : u.email = token.claims.sub

\* C34: whether a bearer token is accepted depends only on its signature,
\* its expiry and the store lookup of its subject, never on the cache: the
\* token of an earlier login is accepted until its expiry also when a later
\* login of the user has overwritten the mirror entry or the entry is gone.
C34_AcceptedWhateverTheCache ==
    [][(auth'.op = "get_current_user" /\ auth' # auth)
         => (auth'.out.cls = "return" <=> Acceptable(auth'.arg, clock, users))]_vars

\* a token of the user was accepted while the mirror entry held the token
\* of a later login
C34_Witness ==
    /\ auth.op = "get_current_user" /\ auth.out.cls = "return"
    /\ held # None /\ held.user = auth.out.value
    /\ held.token # auth.arg
    /\ held.token.claims.exp > auth.arg.claims.exp
    /\ cache[AuthTokenKey(held.user)].value = held.token

(***************************************************************************)
(* Claims about what the list cache and the list response hold             *)
(***************************************************************************)

\* an entry of a list carries only id, name fields, email, role and
\* address fields
OnlyPublicFields(entry) ==
    DOMAIN entry \subseteq {"guid", "name", "last_name", "email", "role", "city"}

\* keyword arguments the projection accepts: the columns of a stored user
\* with the first name also given as name
WithName(u) == [k \in DOMAIN u \cup {"name"} |-> IF k = "name" THEN u.first_name ELSE u[k]]

HolderNow == RowByGuid(users, held.user.guid)

\* C36: the role gate decides on the principal's role as stored at the time
\* of the request, not as it was when the token was issued: once an update
\* of a user's role from admin to viewer is committed, every update or
\* delete request made with a token issued to the user before the change
\* is rejected with 401.
C36_RoleAsStored ==
    [][(/\ held # None /\ held' = held
        /\ held.user.role = "ADMIN"
        /\ HolderNow # None /\ HolderNow.role = "VIEWER"
        /\ <<gate_in, gate_out>>' # <<gate_in, gate_out>>
        /\ gate_in'.route \in {"update_user", "delete_user"})
          => gate_out' = "401"]_vars

\* a delete with the token of a user that was an admin when it logged in
\* and is a viewer now was rejected
C36_Witness ==
    /\ held # None /\ held.user.role = "ADMIN"
    /\ HolderNow # None /\ HolderNow.role = "VIEWER"
    /\ gate_in.route = "delete_user" /\ gate_in.session_user = HolderNow
    /\ gate_out = "401"

\* C37: after any sequence of creates, deletes and logins, the principal
\* resolved from a valid token is the user the token was issued to: its id
\* equals the user id claim of the token; a token issued to a user that was
\* deleted never resolves to a user created later with the same email.
C37_PrincipalIsTokenUser ==
    [][(/\ held # None /\ held' = held
        /\ <<gate_in, gate_out>>' # <<gate_in, gate_out>>
        /\ gate_in'.session_user # None)
          => gate_in'.session_user.guid = ParseUUID(held.token.claims.user_guid)]_vars

----------------------------------------------------------------------------
\* Claims about a failing cache invalidation

\* C38: when the cache invalidation of a create, update or delete fails with
\* a cache server error, the request ends with 500 and the store is left as
\* it was; the store only changes in the commit of a request whose
\* invalidation completed, when no key of the list cache is left.
C38_NoCommitWithoutInvalidation ==
    [][/\ \A p \in Procs :
            (/\ req[p].kind \in Mutating
             /\ req[p].pc # "done" /\ req'[p].pc = "done"
             /\ req'[p].exc = "RedisError")
                => /\ req'[p].status = 500
                   /\ users' = users
       /\ users' # users
            => /\ \E p \in Procs : /\ req[p].pc = "commit" /\ req'[p].pc = "done"
                                   /\ req'[p].status = SuccessStatus(req[p].kind)
               /\ \A k \in DOMAIN cache : ~MatchesPattern(k, GET_USERS_REDIS_K)]_vars

\* a create whose invalidation failed ended with 500, its row is not stored
\* and the cached list is still there
C38_Witness ==
    \E p \in Procs :
        /\ req[p].kind = "create_new_user" /\ req[p].pc = "done"
        /\ req[p].exc = "RedisError" /\ req[p].status = 500
        /\ RowByGuid(users, req[p].guid) = None
        /\ \E k \in DOMAIN cache : MatchesPattern(k, GET_USERS_REDIS_K)

====
